---- MODULE Spec2Model ----
(***************************************************************************)
(* Kubera pricing engine: metrics, zone classification, rule-based         *)
(* recommendations, LLM enhancement fallback and the main.ts pipeline.     *)
(*                                                                         *)
(* Two engines exist in the repository with the same function names:       *)
(*   "core"   - src/core/market-analysis   (src/unnamed/part_002)          *)
(*   "legacy" - ./market-analysis imported by main.ts (src/unnamed/part_001)*)
(*                                                                         *)
(* JavaScript numbers are modelled as exact rationals n/d (d > 0) plus the *)
(* two non-numeric values the code can produce: NaN and undefined.         *)
(* Comparisons with NaN/undefined are false, arithmetic on them gives NaN, *)
(* as in JavaScript.  Prices are whole rupees; on the price sets used here *)
(* every threshold comparison of the exact fractions agrees with the one   *)
(* IEEE doubles give.                                                      *)
(***************************************************************************)
EXTENDS Integers, Sequences, FiniteSets, TLC

VARIABLES
  engine,                  \* which market-analysis module is running
  marketPrices,            \* analyzeMarketStrategy: priceData.results mapped to numbers
  merchantPrice,           \* analyzeMarketStrategy: merchantPrice argument
  customerFeedback,        \* lengths of the feedback arrays the rules read
  today,                   \* <<month, day>> read by checkFestivalContext
  pc,                      \* position inside analyzeMarketStrategy
  metrics,                 \* const metrics
  zone,                    \* const zone
  festivalContext,         \* const festivalContext
  rawRecommendations,      \* ruleBasedData.rawRecommendations
  llm,                     \* what neurolink.generate did in this call
  enhancedRecommendations, \* const enhancedRecommendations
  result,                  \* the MarketAnalysisResult the call resolved with
  outcome,                 \* "pending" | "returned" | the error the call rejected with
  stage,                   \* main(): the step it is in ("none": main is not running)
  attempt,                 \* withRetry: loop variable `attempt`
  waiting,                 \* withRetry: inside the 2 second delay before the next attempt
  priceResult,             \* main(): priceResult.results, as numbers
  feedbackResult,          \* main(): feedbackResult
  prompts,                 \* getMerchantPriceFromCLI: questions asked so far
  report,                  \* main(): what the report printed (recsToShow, SUMMARY line)
  exitCode,                \* process.exit status, -1 while the process runs
  lastAnswer,              \* askForPrice: parseFloat of the answer typed last
  rlClosed,                \* getMerchantPriceFromCLI: how often rl.close() was called
  lastError,               \* withRetry: lastError of the call in progress
  content,                 \* services searchProductPrices: result.content of the generate call
  searchResult,            \* services searchProductPrices: what the call settled with
  rawPrice,                \* applyPsychologicalPricing: the price it is first given
  charmPrices              \* applyPsychologicalPricing: results of its successive applications

\* state outside main() and analyzeMarketStrategy
otherVars == <<content, searchResult, rawPrice, charmPrices>>

mainVars ==
  <<stage, attempt, waiting, priceResult, feedbackResult, prompts, report, exitCode,
    lastAnswer, rlClosed, lastError, otherVars>>

vars == <<engine, marketPrices, merchantPrice, customerFeedback, today, pc,
          metrics, zone, festivalContext, rawRecommendations, llm,
          enhancedRecommendations, result, outcome, mainVars>>

(***************************************************************************)
(* Bounds of the model                                                     *)
(***************************************************************************)
\* longest competitor list in the metrics / zone specification
MaxCompetitors == 5
\* longest price-discovery result list in the analysis pipeline
MaxResults == 3
\* longest price-discovery result list in the main.ts pipeline
MaxSearchResults == 2
\* most questions getMerchantPriceFromCLI asks in one run
MaxPrompts == 2
\* longest competitor list whose orderings are all compared with one another
MaxPermuted == 4
\* longest competitor list in the recommendation-rules specification
MaxRuleCompetitors == 2

\* competitor prices (rupees): spreads of 5, 10, 14.3, 20 and 25 percent occur
PriceValues == {950, 1000, 1050, 1200}
\* merchant prices: price index 40, 50, 95, 100, 108, 110, 130, 140 against median 1000
MerchantValues == {400, 500, 950, 1000, 1080, 1100, 1300, 1400}
\* competitor prices of the recommendation-rules specification: medians on both
\* sides of a multiple of 1000, whole and half rupees (999.5, 1499.5, 1999.5)
RulePriceValues == {999, 1000, 1999, 2000}
\* merchant prices of the recommendation-rules specification: every tier of
\* every zone, multiples of 1000, of 100 only, and prices that are not round
RuleMerchantValues == {400, 500, 849, 930, 1000, 1049, 1100, 1200, 1300, 2700, 3000}

(***************************************************************************)
(* JavaScript numbers                                                      *)
(***************************************************************************)
Num(n, d) == [kind |-> "num", n |-> n, d |-> d]
Int2Num(k) == Num(k, 1)
NaN == [kind |-> "NaN", n |-> 0, d |-> 1]
Undefined == [kind |-> "undefined", n |-> 0, d |-> 1]
IsNum(x) == x.kind = "num"

\* a - b, a + b, a / b, a * b on JavaScript numbers
Sub(a, b) == IF IsNum(a) /\ IsNum(b) THEN Num(a.n * b.d - b.n * a.d, a.d * b.d) ELSE NaN
Add(a, b) == IF IsNum(a) /\ IsNum(b) THEN Num(a.n * b.d + b.n * a.d, a.d * b.d) ELSE NaN
Mul(a, b) == IF IsNum(a) /\ IsNum(b) THEN Num(a.n * b.n, a.d * b.d) ELSE NaN
\* 0/0 is NaN; x/0 with x # 0 is +-Infinity, which the price domains never
\* produce (every competitor price is positive), so it is folded into NaN
Div(a, b) ==
  IF ~(IsNum(a) /\ IsNum(b)) \/ b.n = 0 THEN NaN
  ELSE IF b.n > 0 THEN Num(a.n * b.d, a.d * b.n)
  ELSE Num(-(a.n * b.d), -(a.d * b.n))

\* a < b, a <= b, a > b, a >= b : false as soon as one side is not a number
Lt(a, b) == IsNum(a) /\ IsNum(b) /\ a.n * b.d < b.n * a.d
Le(a, b) == IsNum(a) /\ IsNum(b) /\ a.n * b.d <= b.n * a.d
Gt(a, b) == Lt(b, a)
Ge(a, b) == Le(b, a)

\* Math.floor(x) and Math.round(x) (halves go up); NaN stays NaN
mathFloor(x) == IF IsNum(x) THEN Int2Num(x.n \div x.d) ELSE NaN
mathRound(x) == IF IsNum(x) THEN Int2Num((2 * x.n + x.d) \div (2 * x.d)) ELSE NaN

(***************************************************************************)
(* Array helpers                                                           *)
(***************************************************************************)
\* s[i] with a JavaScript (0-based) index: undefined outside the array
At(s, i) == IF i \in 0..(Len(s) - 1) THEN Int2Num(s[i + 1]) ELSE Undefined

\* place x in an ascending sequence, after the elements equal to it
RECURSIVE InsertAsc(_, _)
InsertAsc(s, x) ==
  IF s = <<>> THEN <<x>>
  ELSE IF x < Head(s) THEN <<x>> \o s
  ELSE <<Head(s)>> \o InsertAsc(Tail(s), x)

\* [...s].sort((a, b) => a - b)
RECURSIVE SortAsc(_)
SortAsc(s) == IF s = <<>> THEN <<>> ELSE InsertAsc(SortAsc(SubSeq(s, 1, Len(s) - 1)), s[Len(s)])

\* s.indexOf(x): first 0-based index holding x, -1 when absent
IndexOf(s, x) ==
  IF \E i \in 1..Len(s) : s[i] = x
  THEN (CHOOSE i \in 1..Len(s) : s[i] = x /\ \A j \in 1..(i - 1) : s[j] # x) - 1
  ELSE -1

\* s.reduce((a, b) => a + b, 0)
RECURSIVE SumSeq(_)
SumSeq(s) == IF s = <<>> THEN 0 ELSE Head(s) + SumSeq(Tail(s))

(***************************************************************************)
(* calculatePricingMetrics (identical in both engines)                     *)
(***************************************************************************)
\* variant: the upper middle element alone when the count is even
medianOfUpperMiddle(sortedPrices) == At(sortedPrices, Len(sortedPrices) \div 2)

medianOf(sortedPrices) ==
  IF Len(sortedPrices) % 2 = 0
  THEN Div(Add(At(sortedPrices, (Len(sortedPrices) \div 2) - 1),
               At(sortedPrices, Len(sortedPrices) \div 2)),
           Int2Num(2))
  ELSE At(sortedPrices, Len(sortedPrices) \div 2)

\* s.lastIndexOf(x): last 0-based index holding x, -1 when absent
LastIndexOf(s, x) ==
  IF \E i \in 1..Len(s) : s[i] = x
  THEN (CHOOSE i \in 1..Len(s) : s[i] = x /\ \A j \in (i + 1)..Len(s) : s[j] # x) - 1
  ELSE -1

\* variant: the highest position among equal values
rankOfLast(prices, mPrice) == LastIndexOf(SortAsc(Append(prices, mPrice)), mPrice) + 1

rankOf(prices, mPrice) == IndexOf(SortAsc(Append(prices, mPrice)), mPrice) + 1

\* variant: the merchant is not counted among the retailers
calculatePricingMetricsCompetitorsOnly(prices, mPrice) ==
  LET sortedPrices == SortAsc(prices)
      min == At(sortedPrices, 0)
      max == At(sortedPrices, Len(sortedPrices) - 1)
      median == medianOf(sortedPrices)
      average == Div(Int2Num(SumSeq(prices)), Int2Num(Len(prices)))
      priceSpread == Mul(Div(Sub(max, min), median), Int2Num(100))
      priceIndex == Mul(Div(Int2Num(mPrice), median), Int2Num(100))
      rank == rankOf(prices, mPrice)
      total == Len(prices)
  IN [minMarketPrice |-> min,
      maxMarketPrice |-> max,
      medianMarketPrice |-> median,
      averageMarketPrice |-> average,
      priceSpreadPercent |-> priceSpread,
      merchantPrice |-> mPrice,
      priceIndex |-> priceIndex,
      competitiveRank |-> rank,
      totalRetailers |-> total,
      positionPercentile |-> Num(rank * 100, total)]

calculatePricingMetrics(prices, mPrice) ==
  LET sortedPrices == SortAsc(prices)
      min == At(sortedPrices, 0)
      max == At(sortedPrices, Len(sortedPrices) - 1)
      median == medianOf(sortedPrices)
      average == Div(Int2Num(SumSeq(prices)), Int2Num(Len(prices)))
      priceSpread == Mul(Div(Sub(max, min), median), Int2Num(100))
      priceIndex == Mul(Div(Int2Num(mPrice), median), Int2Num(100))
      rank == rankOf(prices, mPrice)
      total == Len(prices) + 1
  IN [minMarketPrice |-> min,
      maxMarketPrice |-> max,
      medianMarketPrice |-> median,
      averageMarketPrice |-> average,
      priceSpreadPercent |-> priceSpread,
      merchantPrice |-> mPrice,
      priceIndex |-> priceIndex,
      competitiveRank |-> rank,
      totalRetailers |-> total,
      positionPercentile |-> Num(rank * 100, total)]

\* value of `metrics` before calculatePricingMetrics has run
NoMetrics ==
  [minMarketPrice |-> Undefined, maxMarketPrice |-> Undefined,
   medianMarketPrice |-> Undefined, averageMarketPrice |-> Undefined,
   priceSpreadPercent |-> Undefined, merchantPrice |-> 0,
   priceIndex |-> Undefined, competitiveRank |-> 0, totalRetailers |-> 0,
   positionPercentile |-> Undefined]

(***************************************************************************)
(* determinePricingZone                                                    *)
(***************************************************************************)
\* variant: a spread of exactly 10 still counts as a stable market
zoneConfidenceInclusive(m) ==
  IF m.totalRetailers >= 6 /\ Le(m.priceSpreadPercent, Int2Num(10)) THEN "High"
  ELSE IF m.totalRetailers <= 3 \/ Gt(m.priceSpreadPercent, Int2Num(20)) THEN "Low"
  ELSE "Medium"

zoneConfidence(m) ==
  IF m.totalRetailers >= 6 /\ Lt(m.priceSpreadPercent, Int2Num(10)) THEN "High"
  ELSE IF m.totalRetailers <= 3 \/ Gt(m.priceSpreadPercent, Int2Num(20)) THEN "Low"
  ELSE "Medium"

\* variant: Critical already at a price index of exactly 130
overpricedSeverityInclusive(m) ==
  IF Ge(m.priceIndex, Int2Num(130)) THEN "Critical" ELSE "Moderate"

\* core engine: severity inside the Overpriced band
overpricedSeverity(m) ==
  IF Gt(m.priceIndex, Int2Num(130)) THEN "Critical" ELSE "Moderate"

\* core engine: severity inside the Underpriced band
underpricedSeverity(m) ==
  IF Lt(m.priceIndex, Int2Num(50)) THEN "Critical" ELSE "Moderate"

\* variant: the rank-aware Overpriced test of the legacy engine
determinePricingZoneRankAware(m) ==
  IF Gt(m.priceIndex, Int2Num(108)) /\ Gt(m.positionPercentile, Int2Num(75))
  THEN [zone |-> "Overpriced", severity |-> overpricedSeverity(m),
        confidence |-> zoneConfidence(m)]
  ELSE IF Ge(m.priceIndex, Int2Num(95)) /\ Le(m.priceIndex, Int2Num(108))
  THEN [zone |-> "Market-Aligned", severity |-> "Optimal", confidence |-> zoneConfidence(m)]
  ELSE [zone |-> "Underpriced", severity |-> underpricedSeverity(m),
        confidence |-> zoneConfidence(m)]

\* core engine
determinePricingZone(m) ==
  IF Gt(m.priceIndex, Int2Num(108))
  THEN [zone |-> "Overpriced", severity |-> overpricedSeverity(m),
        confidence |-> zoneConfidence(m)]
  ELSE IF Ge(m.priceIndex, Int2Num(95)) /\ Le(m.priceIndex, Int2Num(108))
  THEN [zone |-> "Market-Aligned", severity |-> "Optimal", confidence |-> zoneConfidence(m)]
  ELSE [zone |-> "Underpriced", severity |-> underpricedSeverity(m),
        confidence |-> zoneConfidence(m)]

\* legacy engine imported by main.ts
determinePricingZoneLegacy(m) ==
  IF Gt(m.priceIndex, Int2Num(108)) /\ Gt(m.positionPercentile, Int2Num(75))
  THEN [zone |-> "Overpriced",
        severity |-> IF Gt(m.priceIndex, Int2Num(115)) THEN "Critical" ELSE "Moderate",
        confidence |-> zoneConfidence(m)]
  ELSE IF Ge(m.priceIndex, Int2Num(95)) /\ Le(m.priceIndex, Int2Num(108))
  THEN [zone |-> "Market-Aligned", severity |-> "Optimal", confidence |-> zoneConfidence(m)]
  ELSE [zone |-> "Underpriced",
        severity |-> IF Lt(m.priceIndex, Int2Num(90)) THEN "Critical" ELSE "Moderate",
        confidence |-> zoneConfidence(m)]

NoZone == [zone |-> "none", severity |-> "none", confidence |-> "none"]

(***************************************************************************)
(* generateRuleBasedRecommendations                                        *)
(* A recommendation keeps the fields the rules set by identity.  `action`  *)
(* is the fixed part of the action text, targetLow / targetHigh the two    *)
(* amounts a pricing action prints (undefined when the text has none),     *)
(* `reasoning` the length of the reasoning array, and `wording` tells      *)
(* whether the texts are the rule's templates ("raw") or rewritten ones.   *)
(***************************************************************************)
NoSuggestion ==
  [currentPrice |-> Undefined, suggestedPrice |-> Undefined, savingsPerception |-> Undefined]

Rec(priority, action, category, confidence, rule, reasoning) ==
  [priority |-> priority, action |-> action, category |-> category,
   confidence |-> confidence, rule |-> rule, reasoning |-> reasoning,
   wording |-> "raw", targetLow |-> Undefined, targetHigh |-> Undefined,
   psychologicalPriceSuggestion |-> NoSuggestion]

\* a pricing recommendation whose action prints the range low - high
PricingRec(action, confidence, rule, low, high) ==
  [Rec(1, action, "Pricing", confidence, rule, 3) EXCEPT !.targetLow = low, !.targetHigh = high]

\* variant: Math.round in place of Math.floor
applyPsychologicalPricingRounded(price) ==
  Add(Mul(mathRound(Div(price, Int2Num(1000))), Int2Num(1000)), Int2Num(999))

\* core engine: Math.floor(price / 1000) * 1000 + 999
applyPsychologicalPricing(price) ==
  Add(Mul(mathFloor(Div(price, Int2Num(1000))), Int2Num(1000)), Int2Num(999))

\* Math.round(x / 100) * 100 of the legacy engine
roundToHundred(x) == Mul(mathRound(Div(x, Int2Num(100))), Int2Num(100))

\* metrics.merchantPrice - metrics.medianMarketPrice
priceDiff(m) == Sub(Int2Num(m.merchantPrice), m.medianMarketPrice)
\* metrics.medianMarketPrice - metrics.merchantPrice
priceDiffFromMedian(m) == Sub(m.medianMarketPrice, Int2Num(m.merchantPrice))

\* both engines, both severe tiers: medianPsychological and medianSlightlyAbove
medianPsychological(m) ==
  Sub(Mul(mathFloor(Div(m.medianMarketPrice, Int2Num(1000))), Int2Num(1000)), Int2Num(1))
medianSlightlyAbove(m) ==
  Add(Mul(mathFloor(Div(m.medianMarketPrice, Int2Num(1000))), Int2Num(1000)), Int2Num(999))

\* core engine: primary recommendation of the Overpriced branch
overpricedPrimary(m, z) ==
  IF Gt(m.priceIndex, Int2Num(130))
  THEN PricingRec("Reduce price to", "High", "OVERPRICED_SEVERE",
                  medianPsychological(m), medianSlightlyAbove(m))
  ELSE IF Gt(m.priceIndex, Int2Num(115))
  THEN LET gapToClose == Mul(priceDiff(m), Num(65, 100))
           rawLow == Sub(Int2Num(m.merchantPrice), Mul(gapToClose, Num(11, 10)))
           rawHigh == Sub(Int2Num(m.merchantPrice), Mul(gapToClose, Num(9, 10)))
       IN PricingRec("Reduce price to", z.confidence, "OVERPRICED_MODERATE",
                     applyPsychologicalPricing(rawLow), applyPsychologicalPricing(rawHigh))
  ELSE LET suggestedReduction == Mul(priceDiff(m), Num(6, 10))
           rawLow == Sub(Int2Num(m.merchantPrice), suggestedReduction)
           rawHigh == Sub(Int2Num(m.merchantPrice), Mul(suggestedReduction, Num(8, 10)))
       IN PricingRec("Reduce price to", z.confidence, "OVERPRICED_MINOR",
                     applyPsychologicalPricing(rawLow), applyPsychologicalPricing(rawHigh))

\* legacy engine: primary recommendation of the Overpriced branch
overpricedPrimaryLegacy(m, z) ==
  IF Gt(m.priceIndex, Int2Num(130))
  THEN PricingRec("Reduce price to", "High", "OVERPRICED_SEVERE",
                  medianPsychological(m), medianSlightlyAbove(m))
  ELSE IF Gt(m.priceIndex, Int2Num(115))
  THEN LET gapToClose == Mul(priceDiff(m), Num(65, 100))
       IN PricingRec("Reduce price to", z.confidence, "OVERPRICED_MODERATE",
                     roundToHundred(Sub(Int2Num(m.merchantPrice), Mul(gapToClose, Num(11, 10)))),
                     roundToHundred(Sub(Int2Num(m.merchantPrice), Mul(gapToClose, Num(9, 10)))))
  ELSE LET suggestedReduction == Mul(priceDiff(m), Num(6, 10))
       IN PricingRec("Reduce price by", z.confidence, "OVERPRICED_MINOR",
                     roundToHundred(suggestedReduction),
                     roundToHundred(Mul(suggestedReduction, Num(8, 10))))

\* variant: the bundle is pushed with priority 4
valueBundleLate ==
  Rec(4, "Add value bundle instead of price cut", "Value-Add", "Medium",
      "OVERPRICED_VALUE_BUNDLE", 3)

valueBundle ==
  Rec(2, "Add value bundle instead of price cut", "Value-Add", "Medium",
      "OVERPRICED_VALUE_BUNDLE", 3)

\* variant: the flash sale is dropped already at a price index of exactly 130
overpricedUrgencyStrict(m) ==
  IF Lt(m.priceIndex, Int2Num(130))
  THEN <<Rec(3, "Create urgency with flash sale or limited stock", "Urgency", "High",
             "OVERPRICED_URGENCY", 3)>>
  ELSE <<>>

overpricedUrgency(m) ==
  IF Le(m.priceIndex, Int2Num(130))
  THEN <<Rec(3, "Create urgency with flash sale or limited stock", "Urgency", "High",
             "OVERPRICED_URGENCY", 3)>>
  ELSE <<>>

overpricedBranch(m, z) == <<overpricedPrimary(m, z), valueBundle>> \o overpricedUrgency(m)

overpricedBranchLegacy(m, z) ==
  <<overpricedPrimaryLegacy(m, z), valueBundle>> \o overpricedUrgency(m)

\* variant: both recommendations carry the zone confidence
alignedBranchZoneConfidence(m, z) ==
  <<Rec(1, "Hold current price - focus on conversion optimization", "Marketing",
        z.confidence, "ALIGNED_HOLD_OPTIMIZE", 2),
    Rec(2, "Improve product listing quality and visibility", "Marketing",
        z.confidence, "ALIGNED_VISIBILITY", 2)>>

alignedBranch(m, z) ==
  <<Rec(1, "Hold current price - focus on conversion optimization", "Marketing",
        z.confidence, "ALIGNED_HOLD_OPTIMIZE", 2),
    Rec(2, "Improve product listing quality and visibility", "Marketing",
        "High", "ALIGNED_VISIBILITY", 2)>>

\* core engine: primary recommendation of the Underpriced branch
underpricedPrimary(m, z) ==
  IF Lt(m.priceIndex, Int2Num(50))
  THEN PricingRec("Increase price to", "High", "UNDERPRICED_SEVERE",
                  medianPsychological(m), medianSlightlyAbove(m))
  ELSE IF Lt(m.priceIndex, Int2Num(90))
  THEN LET gapToClose == Mul(priceDiffFromMedian(m), Num(6, 10))
           rawLow == Add(Int2Num(m.merchantPrice), Mul(gapToClose, Num(8, 10)))
           rawHigh == Add(Int2Num(m.merchantPrice), Mul(gapToClose, Num(12, 10)))
       IN PricingRec("Increase price to", z.confidence, "UNDERPRICED_MODERATE",
                     applyPsychologicalPricing(rawLow), applyPsychologicalPricing(rawHigh))
  ELSE LET suggestedIncrease == Mul(priceDiffFromMedian(m), Num(5, 10))
           rawLow == Add(Int2Num(m.merchantPrice), suggestedIncrease)
           rawHigh == Add(Int2Num(m.merchantPrice), Mul(suggestedIncrease, Num(13, 10)))
       IN PricingRec("Increase price to", z.confidence, "UNDERPRICED_MINOR",
                     applyPsychologicalPricing(rawLow), applyPsychologicalPricing(rawHigh))

\* legacy engine: primary recommendation of the Underpriced branch
underpricedPrimaryLegacy(m, z) ==
  IF Lt(m.priceIndex, Int2Num(50))
  THEN PricingRec("Increase price to", "High", "UNDERPRICED_SEVERE",
                  medianPsychological(m), medianSlightlyAbove(m))
  ELSE IF Lt(m.priceIndex, Int2Num(90))
  THEN LET gapToClose == Mul(priceDiffFromMedian(m), Num(6, 10))
       IN PricingRec("Increase price to", z.confidence, "UNDERPRICED_MODERATE",
                     roundToHundred(Add(Int2Num(m.merchantPrice), Mul(gapToClose, Num(8, 10)))),
                     roundToHundred(Add(Int2Num(m.merchantPrice), Mul(gapToClose, Num(12, 10)))))
  ELSE LET suggestedIncrease == Mul(priceDiffFromMedian(m), Num(5, 10))
       IN PricingRec("Increase price by", z.confidence, "UNDERPRICED_MINOR",
                     roundToHundred(suggestedIncrease),
                     roundToHundred(Mul(suggestedIncrease, Num(13, 10))))

\* variant: the volume recommendation starts only above a price index of 50
underpricedVolumeStrict(m) ==
  IF Gt(m.priceIndex, Int2Num(50))
  THEN <<Rec(2, "Maintain low price and focus on volume", "Marketing", "Medium",
             "UNDERPRICED_VOLUME", 3)>>
  ELSE <<>>

underpricedVolume(m) ==
  IF Ge(m.priceIndex, Int2Num(50))
  THEN <<Rec(2, "Maintain low price and focus on volume", "Marketing", "Medium",
             "UNDERPRICED_VOLUME", 3)>>
  ELSE <<>>

underpricedBranch(m, z) == <<underpricedPrimary(m, z)>> \o underpricedVolume(m)

underpricedBranchLegacy(m, z) == <<underpricedPrimaryLegacy(m, z)>> \o underpricedVolume(m)

\* customerFeedback is modelled by the lengths of the four arrays the rules
\* read; Missing: the field is absent from the parsed answer (undefined)
Missing == -1

\* reading .length, [0] or .slice of an absent array is a TypeError:
\* commonComplaints.slice in the aligned branch, dealBreakers.length,
\* missingFeatures[0] once a deal breaker exists, strengths.length
rulesThrow(z, fb) ==
  \/ z.zone = "Market-Aligned" /\ fb.commonComplaints = Missing
  \/ fb.dealBreakers = Missing
  \/ fb.dealBreakers > 0 /\ fb.missingFeatures = Missing
  \/ fb.strengths = Missing

\* variant: the service recommendation is added only when strengths were reported
universalRulesServiceOptional(fb) ==
  (IF fb.dealBreakers > 0
   THEN <<Rec(3, "Address critical customer concerns", "Quality", "High",
              "UNIVERSAL_DEALBREAKERS", 3)>> ELSE <<>>)
  \o (IF fb.strengths > 0
      THEN <<Rec(4, "Highlight product strengths in marketing", "Marketing", "High",
                 "UNIVERSAL_STRENGTHS", 3),
             Rec(5, "Offer superior service or faster delivery", "Value-Add", "Medium",
                 "UNIVERSAL_SERVICE", 3)>> ELSE <<>>)

universalRules(fb) ==
  (IF fb.dealBreakers > 0
   THEN <<Rec(3, "Address critical customer concerns", "Quality", "High",
              "UNIVERSAL_DEALBREAKERS", 3)>> ELSE <<>>)
  \o (IF fb.strengths > 0
      THEN <<Rec(4, "Highlight product strengths in marketing", "Marketing", "High",
                 "UNIVERSAL_STRENGTHS", 3)>> ELSE <<>>)
  \o <<Rec(5, "Offer superior service or faster delivery", "Value-Add", "Medium",
           "UNIVERSAL_SERVICE", 3)>>

\* variant: only multiples of 1000 count as round prices
isRoundPriceThousands(price) == price % 1000 = 0

isRoundPrice(price) == price % 1000 = 0 \/ price % 100 = 0

\* core engine only
psychologicalPricingRule(m) ==
  IF isRoundPrice(m.merchantPrice)
  THEN LET psychologicalPrice == applyPsychologicalPricing(Int2Num(m.merchantPrice))
           savingsPerception == Sub(Int2Num(m.merchantPrice), psychologicalPrice)
       IN <<[Rec(6, "Use psychological pricing", "Pricing", "High",
                 "PSYCHOLOGICAL_PRICING", 3)
             EXCEPT !.psychologicalPriceSuggestion =
                      [currentPrice |-> Int2Num(m.merchantPrice),
                       suggestedPrice |-> psychologicalPrice,
                       savingsPerception |-> savingsPerception]]>>
  ELSE <<>>

\* core engine
zoneBranch(m, z) ==
  IF z.zone = "Overpriced" THEN overpricedBranch(m, z)
  ELSE IF z.zone = "Market-Aligned" THEN alignedBranch(m, z)
  ELSE IF z.zone = "Underpriced" THEN underpricedBranch(m, z)
  ELSE <<>>

\* legacy engine
zoneBranchLegacy(m, z) ==
  IF z.zone = "Overpriced" THEN overpricedBranchLegacy(m, z)
  ELSE IF z.zone = "Market-Aligned" THEN alignedBranch(m, z)
  ELSE IF z.zone = "Underpriced" THEN underpricedBranchLegacy(m, z)
  ELSE <<>>

\* core engine
generateRuleBasedRecommendations(m, z, fb) ==
  zoneBranch(m, z) \o universalRules(fb) \o psychologicalPricingRule(m)

\* legacy engine: no psychological-pricing rule
generateRuleBasedRecommendationsLegacy(m, z, fb) ==
  zoneBranchLegacy(m, z) \o universalRules(fb)

(***************************************************************************)
(* checkFestivalContext, as a function of the (month, day) of `new Date()` *)
(***************************************************************************)
festivals ==
  <<[name |-> "Republic Day Sale", start |-> <<1, 20>>, end |-> <<1, 31>>],
    [name |-> "Holi Sale", start |-> <<3, 15>>, end |-> <<3, 25>>],
    [name |-> "Summer Sale", start |-> <<4, 1>>, end |-> <<5, 31>>],
    [name |-> "Independence Day Sale", start |-> <<8, 10>>, end |-> <<8, 20>>],
    [name |-> "Diwali/Festive Season", start |-> <<10, 1>>, end |-> <<11, 15>>],
    [name |-> "Year-End Sale", start |-> <<12, 15>>, end |-> <<12, 31>>]>>

\* variant: a festival starts the day after its start date
isActiveAfterStart(festival, month, day) ==
  /\ (month > festival.start[1] \/ (month = festival.start[1] /\ day > festival.start[2]))
  /\ (month < festival.end[1] \/ (month = festival.end[1] /\ day <= festival.end[2]))

isActive(festival, month, day) ==
  /\ (month > festival.start[1] \/ (month = festival.start[1] /\ day >= festival.start[2]))
  /\ (month < festival.end[1] \/ (month = festival.end[1] /\ day <= festival.end[2]))

festivalStrategyText ==
  "Festival season = high competition. Consider aggressive offers, limited-time deals, or bundle promotions."

checkFestivalContext(month, day) ==
  IF \E i \in 1..Len(festivals) : isActive(festivals[i], month, day)
  THEN [isActiveFestival |-> TRUE,
        festivalName |-> festivals[CHOOSE i \in 1..Len(festivals) :
                                     /\ isActive(festivals[i], month, day)
                                     /\ \A j \in 1..(i - 1) : ~isActive(festivals[j], month, day)].name,
        festivalStrategy |-> festivalStrategyText]
  ELSE [isActiveFestival |-> FALSE, festivalName |-> "undefined",
        festivalStrategy |-> "undefined"]

\* value of `festivalContext` before checkFestivalContext has run
NoFestival ==
  [isActiveFestival |-> FALSE, festivalName |-> "not computed",
   festivalStrategy |-> "not computed"]

(***************************************************************************)
(* enhanceRecommendationsWithLLM                                           *)
(* The text-generation call is external: it throws, answers text that is   *)
(* not JSON, or answers a JSON array.  Nothing in the code constrains that *)
(* array, so the answers below are all ones JSON.parse accepts.            *)
(***************************************************************************)
LLMFailures == {"throws", "unparsable"}
LLMAnswers == {"reworded", "festival_added", "dropped", "changed", "empty"}

Reworded(recs) == [i \in 1..Len(recs) |-> [recs[i] EXCEPT !.wording = "enhanced"]]

\* JSON.parse(cleanedContent) for each kind of well-formed answer
parsedAnswer(raw, answer) ==
  IF answer = "reworded" THEN Reworded(raw)
  ELSE IF answer = "festival_added"
  THEN Append(Reworded(raw),
              [Rec(Len(raw) + 1, "Festival offer", "Festival", "High", "none", 3)
                 EXCEPT !.wording = "enhanced"])
  ELSE IF answer = "dropped" THEN SubSeq(Reworded(raw), 1, Len(raw) - 1)
  ELSE IF answer = "empty" THEN <<>>
  ELSE [i \in 1..Len(raw) |->
          [Reworded(raw)[i] EXCEPT !.priority = Len(raw) + 1 - i, !.confidence = "Low"]]

\* variant: only a thrown call falls back; unparsable text is merged as far as it goes
enhanceWithoutParseFallback(raw, llmOutcome) ==
  IF llmOutcome = "throws" THEN raw
  ELSE IF llmOutcome = "unparsable" THEN SubSeq(Reworded(raw), 1, 1) \o SubSeq(raw, 2, Len(raw))
  ELSE parsedAnswer(raw, llmOutcome)

enhanceRecommendationsWithLLM(raw, llmOutcome) ==
  IF llmOutcome \in LLMFailures THEN raw ELSE parsedAnswer(raw, llmOutcome)

(***************************************************************************)
(* analyzeMarketStrategy, statement by statement                           *)
(***************************************************************************)
NoResult ==
  [retailersTracked |-> 0, priceIndex |-> Undefined, zone |-> NoZone,
   recommendations |-> <<>>, festivalContext |-> NoFestival]

\* the template strings of the result call .toLocaleString() on min, max and
\* median: a TypeError when one of them is undefined
resultThrows(m) ==
  \/ m.minMarketPrice.kind = "undefined"
  \/ m.maxMarketPrice.kind = "undefined"
  \/ m.medianMarketPrice.kind = "undefined"

CalculateMetrics ==
  /\ pc = "metrics"
  /\ metrics' = calculatePricingMetrics(marketPrices, merchantPrice)
  /\ pc' = "zone"
  /\ UNCHANGED <<engine, marketPrices, merchantPrice, customerFeedback, today, zone,
                 festivalContext, rawRecommendations, llm, enhancedRecommendations,
                 result, outcome>>
  /\ UNCHANGED mainVars

DetermineZone ==
  /\ pc = "zone"
  /\ zone' = IF engine = "core" THEN determinePricingZone(metrics)
             ELSE determinePricingZoneLegacy(metrics)
  /\ pc' = "festival"
  /\ UNCHANGED <<engine, marketPrices, merchantPrice, customerFeedback, today, metrics,
                 festivalContext, rawRecommendations, llm, enhancedRecommendations,
                 result, outcome>>
  /\ UNCHANGED mainVars

CheckFestival ==
  /\ pc = "festival"
  /\ festivalContext' = checkFestivalContext(today[1], today[2])
  /\ pc' = "recommend"
  /\ UNCHANGED <<engine, marketPrices, merchantPrice, customerFeedback, today, metrics,
                 zone, rawRecommendations, llm, enhancedRecommendations, result, outcome>>
  /\ UNCHANGED mainVars

GenerateRecommendations ==
  /\ pc = "recommend"
  /\ IF rulesThrow(zone, customerFeedback)
     THEN /\ outcome' = "TypeError"
          /\ pc' = "done"
          /\ UNCHANGED rawRecommendations
     ELSE /\ rawRecommendations' =
               IF engine = "core"
               THEN generateRuleBasedRecommendations(metrics, zone, customerFeedback)
               ELSE generateRuleBasedRecommendationsLegacy(metrics, zone, customerFeedback)
          /\ pc' = "enhance"
          /\ UNCHANGED outcome
  /\ UNCHANGED <<engine, marketPrices, merchantPrice, customerFeedback, today, metrics,
                 zone, festivalContext, llm, enhancedRecommendations, result>>
  /\ UNCHANGED mainVars

\* await enhanceRecommendationsWithLLM(...): the external call answers
Enhance ==
  /\ pc = "enhance"
  /\ \E o \in LLMFailures \cup LLMAnswers :
       /\ (o = "festival_added") => festivalContext.isActiveFestival
       /\ llm' = o
       /\ enhancedRecommendations' = enhanceRecommendationsWithLLM(rawRecommendations, o)
  /\ pc' = "build"
  /\ UNCHANGED <<engine, marketPrices, merchantPrice, customerFeedback, today, metrics,
                 zone, festivalContext, rawRecommendations, result, outcome>>
  /\ UNCHANGED mainVars

BuildResult ==
  /\ pc = "build"
  /\ IF resultThrows(metrics)
     THEN /\ outcome' = "TypeError"
          /\ UNCHANGED result
     ELSE /\ outcome' = "returned"
          /\ result' = [retailersTracked |-> Len(marketPrices),
                        priceIndex |-> metrics.priceIndex,
                        zone |-> zone,
                        recommendations |-> enhancedRecommendations,
                        festivalContext |-> festivalContext]
  /\ pc' = "done"
  /\ UNCHANGED <<engine, marketPrices, merchantPrice, customerFeedback, today, metrics,
                 zone, festivalContext, rawRecommendations, llm, enhancedRecommendations>>
  /\ UNCHANGED mainVars

(***************************************************************************)
(* main.ts: the recommendations the report prints                          *)
(***************************************************************************)
\* the report's filter: rec.confidence === "High" || rec.confidence === "Medium"
impactful(rec) == rec.confidence \in {"High", "Medium"}

\* place rec in a sequence ascending by priority, after the entries of equal priority
RECURSIVE InsertByPriority(_, _)
InsertByPriority(s, rec) ==
  IF s = <<>> THEN <<rec>>
  ELSE IF rec.priority < Head(s).priority THEN <<rec>> \o s
  ELSE <<Head(s)>> \o InsertByPriority(Tail(s), rec)

\* recs.sort((a, b) => a.priority - b.priority), a stable sort
RECURSIVE SortByPriority(_)
SortByPriority(recs) ==
  IF recs = <<>> THEN <<>>
  ELSE InsertByPriority(SortByPriority(SubSeq(recs, 1, Len(recs) - 1)), recs[Len(recs)])

Min2(a, b) == IF a < b THEN a ELSE b
Max2(a, b) == IF a > b THEN a ELSE b

\* sortedRecs.slice(0, Math.max(2, Math.min(5, sortedRecs.length)))
recsToShow(recs) ==
  LET sortedRecs == SortByPriority(SelectSeq(recs, impactful))
  IN SubSeq(sortedRecs, 1, Min2(Len(sortedRecs), Max2(2, Min2(5, Len(sortedRecs)))))

\* the SUMMARY line is built from marketAnalysis.recommendations[0]
summaryOf(res) == [zone |-> res.zone.zone, recommendation |-> res.recommendations[1]]

NoReport ==
  [recsToShow |-> <<>>,
   summary |-> [zone |-> "none", recommendation |-> Rec(0, "none", "none", "none", "none", 0)]]

(***************************************************************************)
(* services/web-search.ts: searchProductPrices and its URL filter          *)
(***************************************************************************)
MaxUrlResults == 2

\* a url is modelled by what the filter can see of it: its length, the longest
\* run of one repeated character that is not a line terminator, and the longest
\* run of one repeated line terminator (\n, \r, U+2028, U+2029)
UrlLengths == {200, 201}
RunLengths == {1, 20, 21}
LineRunLengths == {0, 20, 21}
Urls == [length : UrlLengths, run : RunLengths, lineRun : LineRunLengths]

\* entries of the results array; sno is the position in the generated answer
UrlResults(n) ==
  UNION {{[i \in 1..n |-> [sno |-> i, url |-> us[i]]]} : us \in [1..n -> Urls]}

\* what neurolink.generate settles with: a rejected call, text that fails the
\* truncation / brace / JSON.parse checks, JSON without product or results,
\* or a well-formed answer
ContentValues ==
  [kind : {"network_error", "malformed", "invalid_structure"}, results : {<<>>}]
  \cup [kind : {"ok"}, results : UNION {UrlResults(n) : n \in 0..MaxUrlResults}]

NoResponse == [kind |-> "none", results |-> <<>>]
NoSearch == [status |-> "none", results |-> <<>>]

\* result.url.length > 200
tooLong(url) == url.length > 200

\* /(.)\1{20,}/.test(result.url): the dot matches no line terminator, so only
\* runs of other characters are found
repeatedPatterns(url) == url.run >= 21

\* the callback of parsedResult.results.filter
keepsResult(r) == ~tooLong(r.url) /\ ~repeatedPatterns(r.url)

\* searchProductPrices of services/web-search.ts
searchProductPricesService(c) ==
  IF c.kind # "ok"
  THEN [status |-> "threw", results |-> <<>>]
  ELSE LET kept == SelectSeq(c.results, keepsResult)
       IN IF kept = <<>>
          THEN [status |-> "threw", results |-> <<>>]
          ELSE [status |-> "returned", results |-> kept]

\* one call of the services searchProductPrices
SearchProductPrices ==
  /\ searchResult.status = "none"
  /\ content.kind # "none"
  /\ searchResult' = searchProductPricesService(content)
  /\ UNCHANGED <<engine, marketPrices, merchantPrice, customerFeedback, today, pc,
                 metrics, zone, festivalContext, rawRecommendations, llm,
                 enhancedRecommendations, result, outcome, stage, attempt, waiting,
                 priceResult, feedbackResult, prompts, report, exitCode, lastAnswer,
                 rlClosed, lastError, content, rawPrice, charmPrices>>

(***************************************************************************)
(* applyPsychologicalPricing on IEEE doubles                               *)
(*                                                                         *)
(* Prices of the rule engine are small rationals, on which double          *)
(* arithmetic is exact.  Around 2^53 it is not: a "wide" number stands for *)
(* the double WideOrigin + n, where WideOrigin = 2^53 - 2992 =             *)
(* 9007199254738000 is a multiple of 1000 and of 4.  Up to 2^53 every      *)
(* integer is a double; above it only the even integers are, and an odd    *)
(* result is rounded to the neighbour whose mantissa is even.              *)
(***************************************************************************)
MaxSmallPrice == 2100
MaxWideOffset == 3100

\* offset of 2^53 from WideOrigin
ExactLimit == 2992

Wide(n) == [kind |-> "wide", n |-> n, d |-> 1]

isDouble(n) == n <= ExactLimit \/ n % 2 = 0

\* round-to-nearest, ties-to-even, of the integer WideOrigin + n
roundToDouble(n) ==
  IF isDouble(n) THEN n
  ELSE IF (n + 1) % 4 = 0 THEN n + 1 ELSE n - 1

\* applyPsychologicalPricing on either kind of number: on a wide number
\* Math.floor(price / 1000) and thousands * 1000 are exact, the sum is rounded
applyPsychologicalPricingDouble(x) ==
  IF x.kind = "wide"
  THEN Wide(roundToDouble((x.n \div 1000) * 1000 + 999))
  ELSE applyPsychologicalPricing(x)

\* prices in steps of one half, and the doubles from WideOrigin on
RawPriceValues ==
  {Num(k, 2) : k \in 0..(2 * MaxSmallPrice)}
  \cup {Wide(n) : n \in {o \in 0..MaxWideOffset : isDouble(o)}}

\* applyPsychologicalPricing applied to the raw price, then to its own result
ApplyPsychologicalPricing ==
  /\ Len(charmPrices) < 2
  /\ charmPrices' =
       Append(charmPrices,
              applyPsychologicalPricingDouble(
                IF charmPrices = <<>> THEN rawPrice ELSE charmPrices[Len(charmPrices)]))
  /\ UNCHANGED <<engine, marketPrices, merchantPrice, customerFeedback, today, pc,
                 metrics, zone, festivalContext, rawRecommendations, llm,
                 enhancedRecommendations, result, outcome, stage, attempt, waiting,
                 priceResult, feedbackResult, prompts, report, exitCode, lastAnswer,
                 rlClosed, lastError, content, searchResult, rawPrice>>

(***************************************************************************)
(* Specifications                                                          *)
(***************************************************************************)
Engines == {"core", "legacy"}
NoFeedback ==
  [dealBreakers |-> 0, strengths |-> 0, missingFeatures |-> 0, commonComplaints |-> 0]
\* well-formed feedback
FeedbackValues ==
  [dealBreakers : 0..1, strengths : 0..1, missingFeatures : {1}, commonComplaints : {1}]
\* feedback that passed analyzeCustomerFeedback's structure check, which looks
\* at marketAnalysis, generalOpinion and customerNeeds only
UncheckedFeedbackValues ==
  [dealBreakers : {Missing, 0, 1}, strengths : {Missing, 0, 1},
   missingFeatures : {Missing, 0, 1}, commonComplaints : {Missing, 0, 1}]
\* Jun 1: no festival; Oct 15: Diwali/Festive Season
TodayValues == {<<6, 1>>, <<10, 15>>}

\* sequences over S of length lo..hi
SeqsOf(S, lo, hi) == UNION {[1..n -> S] : n \in lo..hi}

\* neither the services search nor applyPsychologicalPricing has been called
OtherIdle ==
  /\ content = NoResponse
  /\ searchResult = NoSearch
  /\ rawPrice = Int2Num(0)
  /\ charmPrices = <<>>

InitCommon ==
  /\ engine \in Engines
  /\ merchantPrice \in MerchantValues
  /\ pc = "metrics"
  /\ metrics = NoMetrics
  /\ zone = NoZone
  /\ festivalContext = NoFestival
  /\ rawRecommendations = <<>>
  /\ llm = "none"
  /\ enhancedRecommendations = <<>>
  /\ result = NoResult
  /\ outcome = "pending"
  /\ stage = "none"
  /\ attempt = 0
  /\ waiting = FALSE
  /\ priceResult = <<>>
  /\ feedbackResult = NoFeedback
  /\ prompts = 0
  /\ report = NoReport
  /\ exitCode = -1
  /\ lastAnswer = Undefined
  /\ rlClosed = 0
  /\ lastError = "null"
  /\ OtherIdle

\* one call of analyzeMarketStrategy on any price-discovery answer, the empty one included
Init ==
  /\ marketPrices \in SeqsOf(PriceValues, 0, MaxResults)
  /\ customerFeedback \in FeedbackValues
  /\ today \in TodayValues
  /\ InitCommon

Next ==
  \/ CalculateMetrics
  \/ DetermineZone
  \/ CheckFestival
  \/ GenerateRecommendations
  \/ Enhance
  \/ BuildResult

Spec == Init /\ [][Next]_vars

\* calculatePricingMetrics and determinePricingZone on every non-empty competitor list
MetricsInit ==
  /\ marketPrices \in SeqsOf(PriceValues, 1, MaxCompetitors)
  /\ customerFeedback = NoFeedback
  /\ today = <<6, 1>>
  /\ InitCommon

MetricsNext ==
  \/ CalculateMetrics
  \/ DetermineZone

MetricsSpec == MetricsInit /\ [][MetricsNext]_vars

\* nothing computed yet and main() not running
NotCalled ==
  /\ metrics = NoMetrics
  /\ zone = NoZone
  /\ festivalContext = NoFestival
  /\ rawRecommendations = <<>>
  /\ llm = "none"
  /\ enhancedRecommendations = <<>>
  /\ result = NoResult
  /\ outcome = "pending"
  /\ stage = "none"
  /\ attempt = 0
  /\ waiting = FALSE
  /\ priceResult = <<>>
  /\ feedbackResult = NoFeedback
  /\ prompts = 0
  /\ report = NoReport
  /\ exitCode = -1
  /\ lastAnswer = Undefined
  /\ rlClosed = 0
  /\ lastError = "null"

NotStarted == NotCalled /\ OtherIdle

\* generateRuleBasedRecommendations on the metrics and zone of every competitor
\* list (the empty one included), merchant price and feedback
RulesInit ==
  /\ engine \in Engines
  /\ marketPrices \in SeqsOf(RulePriceValues, 0, MaxRuleCompetitors)
  /\ merchantPrice \in RuleMerchantValues
  /\ customerFeedback \in FeedbackValues
  /\ today = <<6, 1>>
  /\ pc = "metrics"
  /\ NotStarted

RulesNext ==
  \/ CalculateMetrics
  \/ DetermineZone
  \/ CheckFestival
  \/ GenerateRecommendations

RulesSpec == RulesInit /\ [][RulesNext]_vars

\* the rule engine on feedback whose arrays may be absent
FeedbackMerchantValues == {400, 1000, 1200}
FeedbackInit ==
  /\ engine \in Engines
  /\ marketPrices = <<1000>>
  /\ merchantPrice \in FeedbackMerchantValues
  /\ customerFeedback \in UncheckedFeedbackValues
  /\ today = <<6, 1>>
  /\ pc = "metrics"
  /\ NotStarted

FeedbackSpec == FeedbackInit /\ [][RulesNext]_vars

\* days of each month, February counted with its leap day
DaysIn(month) ==
  IF month = 2 THEN 29 ELSE IF month \in {4, 6, 9, 11} THEN 30 ELSE 31

\* every (getMonth() + 1, getDate()) a Date can give
CalendarDates == {<<month, day>> \in (1..12) \X (1..31) : day <= DaysIn(month)}

\* checkFestivalContext on every day of the year
FestivalInit ==
  /\ engine = "core"
  /\ marketPrices = <<1000>>
  /\ merchantPrice = 1000
  /\ customerFeedback = NoFeedback
  /\ today \in CalendarDates
  /\ pc = "festival"
  /\ NotStarted

FestivalNext == CheckFestival

FestivalSpec == FestivalInit /\ [][FestivalNext]_vars

\* no pipeline and no analysis in progress
PipelineIdle ==
  /\ engine = "core"
  /\ marketPrices = <<>>
  /\ merchantPrice = 0
  /\ customerFeedback = NoFeedback
  /\ today = <<6, 1>>
  /\ pc = "idle"
  /\ NotCalled

\* the services searchProductPrices on every generated answer
SearchInit ==
  /\ PipelineIdle
  /\ content \in ContentValues
  /\ searchResult = NoSearch
  /\ rawPrice = Int2Num(0)
  /\ charmPrices = <<>>

SearchNext == SearchProductPrices

SearchSpec == SearchInit /\ [][SearchNext]_vars

\* applyPsychologicalPricing on every raw price
RounderInit ==
  /\ PipelineIdle
  /\ content = NoResponse
  /\ searchResult = NoSearch
  /\ rawPrice \in RawPriceValues
  /\ charmPrices = <<>>

RounderNext == ApplyPsychologicalPricing

RounderSpec == RounderInit /\ [][RounderNext]_vars

(***************************************************************************)
(* main.ts: withRetry around each network stage, legacy engine             *)
(***************************************************************************)
\* default value of withRetry's maxRetries parameter
maxRetries == 2

\* what the text-generation call behind a stage did
SearchResponses ==
  [kind : {"network_error", "malformed"}, results : {<<>>}]
  \cup [kind : {"ok"}, results : SeqsOf(PriceValues, 0, MaxSearchResults)]

\* searchProductPrices of ./web-search: throws on a failed call, on truncated,
\* unbalanced or unparsable JSON and on a missing product / results field;
\* an empty results array only logs a warning and is returned
searchProductPrices(resp) ==
  IF resp.kind = "ok"
  THEN [threw |-> FALSE, results |-> resp.results]
  ELSE [threw |-> TRUE, results |-> <<>>]

FeedbackResponses ==
  [kind : {"network_error", "malformed"}, feedback : {NoFeedback}]
  \cup [kind : {"ok"}, feedback : FeedbackValues]

\* analyzeCustomerFeedback: throws on a failed call or a malformed answer
analyzeCustomerFeedback(resp) ==
  [threw |-> resp.kind # "ok", feedback |-> resp.feedback]

\* answers typed at the price prompt, after parseFloat: NaN stands for text
\* that is not a number
CLIAnswers == {NaN, Int2Num(0), Int2Num(-5)} \cup {Int2Num(m) : m \in MerchantValues}

\* variant: only negative answers are rejected
invalidPriceNegativeOnly(price) == IsNum(price) /\ Lt(price, Int2Num(0))

\* askForPrice: isNaN(price) || price <= 0
invalidPrice(price) == ~IsNum(price) \/ Le(price, Int2Num(0))

\* variant: the catch block of main() logs the error and falls through to the
\* next step
exitOnFailureFallsThrough ==
  /\ stage' = CASE stage = "search" -> "feedback"
               [] stage = "feedback" -> "prompt"
               [] OTHER -> "report"
  /\ UNCHANGED <<attempt, waiting, exitCode>>

\* withRetry throws lastError after the loop; the catch block of main() prints
\* its message and calls process.exit(1)
exitOnFailure ==
  /\ stage' = "exited"
  /\ exitCode' = 1
  /\ UNCHANGED <<attempt, waiting>>

\* variant: the catch block delays after every failed attempt, the last included
retryOrExitAlwaysDelays(error) ==
  /\ lastError' = error
  /\ IF attempt <= maxRetries
     THEN waiting' = TRUE /\ UNCHANGED <<stage, attempt, exitCode>>
     ELSE exitOnFailure

\* withRetry's catch block: delay and go round again, or give up; main()'s
\* catch around the stage then calls process.exit(1)
retryOrExit(error) ==
  /\ lastError' = error
  /\ IF attempt < maxRetries
     THEN waiting' = TRUE /\ UNCHANGED <<stage, attempt, exitCode>>
     ELSE exitOnFailure

\* await new Promise(resolve => setTimeout(resolve, 2000)); attempt++
RetryDelay ==
  /\ waiting
  /\ waiting' = FALSE
  /\ attempt' = attempt + 1
  /\ UNCHANGED <<engine, marketPrices, merchantPrice, customerFeedback, today, pc,
                 metrics, zone, festivalContext, rawRecommendations, llm,
                 enhancedRecommendations, result, outcome, stage, priceResult,
                 feedbackResult, prompts, report, exitCode, lastAnswer, rlClosed,
                 lastError, otherVars>>

\* Step 1: one attempt of searchProductPrices inside withRetry
SearchAttempt ==
  /\ stage = "search" /\ ~waiting
  /\ \E resp \in SearchResponses :
       IF searchProductPrices(resp).threw
       THEN retryOrExit(resp.kind) /\ UNCHANGED priceResult
       ELSE /\ priceResult' = searchProductPrices(resp).results
            /\ stage' = "feedback"
            /\ attempt' = 1
            /\ lastError' = "null"
            /\ UNCHANGED <<waiting, exitCode>>
  /\ UNCHANGED <<engine, marketPrices, merchantPrice, customerFeedback, today, pc,
                 metrics, zone, festivalContext, rawRecommendations, llm,
                 enhancedRecommendations, result, outcome, feedbackResult, prompts,
                 report, lastAnswer, rlClosed, otherVars>>

\* Step 2: one attempt of analyzeCustomerFeedback inside withRetry
FeedbackAttempt ==
  /\ stage = "feedback" /\ ~waiting
  /\ \E resp \in FeedbackResponses :
       IF analyzeCustomerFeedback(resp).threw
       THEN retryOrExit(resp.kind) /\ UNCHANGED feedbackResult
       ELSE /\ feedbackResult' = analyzeCustomerFeedback(resp).feedback
            /\ stage' = "prompt"
            /\ attempt' = 1
            /\ lastError' = "null"
            /\ UNCHANGED <<waiting, exitCode>>
  /\ UNCHANGED <<engine, marketPrices, merchantPrice, customerFeedback, today, pc,
                 metrics, zone, festivalContext, rawRecommendations, llm,
                 enhancedRecommendations, result, outcome, priceResult, prompts,
                 report, lastAnswer, rlClosed, otherVars>>

\* Step 3: getMerchantPriceFromCLI; one question and its answer
AskForPrice ==
  /\ stage = "prompt"
  /\ prompts < MaxPrompts
  /\ prompts' = prompts + 1
  /\ \E answer \in CLIAnswers :
       /\ lastAnswer' = answer
       /\ IF invalidPrice(answer)
          THEN UNCHANGED <<merchantPrice, stage, rlClosed>>
          ELSE /\ rlClosed' = rlClosed + 1
               /\ merchantPrice' = answer.n
               /\ stage' = "strategy"
  /\ UNCHANGED <<engine, marketPrices, customerFeedback, today, pc,
                 metrics, zone, festivalContext, rawRecommendations, llm,
                 enhancedRecommendations, result, outcome, attempt, waiting,
                 priceResult, feedbackResult, report, exitCode, lastError,
                 otherVars>>

\* Step 4: withRetry invokes analyzeMarketStrategy(priceResult, feedbackResult, merchantPrice)
StrategyAttempt ==
  /\ stage = "strategy" /\ ~waiting /\ pc = "idle"
  /\ marketPrices' = priceResult
  /\ customerFeedback' = feedbackResult
  /\ pc' = "metrics"
  /\ metrics' = NoMetrics
  /\ zone' = NoZone
  /\ festivalContext' = NoFestival
  /\ rawRecommendations' = <<>>
  /\ llm' = "none"
  /\ enhancedRecommendations' = <<>>
  /\ result' = NoResult
  /\ outcome' = "pending"
  /\ UNCHANGED <<engine, merchantPrice, today, mainVars>>

\* withRetry sees the call settle: return its value, or catch its error
StrategySettled ==
  /\ stage = "strategy" /\ pc = "done"
  /\ pc' = "idle"
  /\ IF outcome = "returned"
     THEN stage' = "report" /\ UNCHANGED <<attempt, waiting, exitCode, lastError>>
     ELSE retryOrExit(outcome)
  /\ UNCHANGED <<engine, marketPrices, merchantPrice, customerFeedback, today,
                 metrics, zone, festivalContext, rawRecommendations, llm,
                 enhancedRecommendations, result, outcome, priceResult,
                 feedbackResult, prompts, report, lastAnswer, rlClosed, otherVars>>

\* the report is printed and main() returns; with no recommendation at all
\* recommendations[0].action is a TypeError, which main().catch turns into exit 1
Report ==
  /\ stage = "report"
  /\ IF result.recommendations = <<>>
     THEN /\ report' = [report EXCEPT !.recsToShow = recsToShow(result.recommendations)]
          /\ stage' = "exited"
          /\ exitCode' = 1
     ELSE /\ report' = [recsToShow |-> recsToShow(result.recommendations),
                        summary |-> summaryOf(result)]
          /\ stage' = "finished"
          /\ UNCHANGED exitCode
  /\ UNCHANGED <<engine, marketPrices, merchantPrice, customerFeedback, today, pc,
                 metrics, zone, festivalContext, rawRecommendations, llm,
                 enhancedRecommendations, result, outcome, attempt, waiting,
                 priceResult, feedbackResult, prompts, lastAnswer, rlClosed,
                 lastError, otherVars>>

MainInit ==
  /\ engine = "legacy"
  /\ today \in TodayValues
  /\ marketPrices = <<>>
  /\ merchantPrice = 0
  /\ customerFeedback = NoFeedback
  /\ pc = "idle"
  /\ metrics = NoMetrics
  /\ zone = NoZone
  /\ festivalContext = NoFestival
  /\ rawRecommendations = <<>>
  /\ llm = "none"
  /\ enhancedRecommendations = <<>>
  /\ result = NoResult
  /\ outcome = "pending"
  /\ stage = "search"
  /\ attempt = 1
  /\ waiting = FALSE
  /\ priceResult = <<>>
  /\ feedbackResult = NoFeedback
  /\ prompts = 0
  /\ report = NoReport
  /\ exitCode = -1
  /\ lastAnswer = Undefined
  /\ rlClosed = 0
  /\ lastError = "null"
  /\ OtherIdle

MainNext ==
  \/ SearchAttempt
  \/ FeedbackAttempt
  \/ AskForPrice
  \/ StrategyAttempt
  \/ CalculateMetrics
  \/ DetermineZone
  \/ CheckFestival
  \/ GenerateRecommendations
  \/ Enhance
  \/ BuildResult
  \/ StrategySettled
  \/ RetryDelay
  \/ Report

MainSpec == MainInit /\ [][MainNext]_vars

(***************************************************************************)
(* Properties                                                              *)
(***************************************************************************)
zoneComputed == zone # NoZone
metricsComputed == pc # "metrics"

\* price index and spread compared with a whole number, on the stored fraction
indexAbove(k) == IsNum(metrics.priceIndex) /\ metrics.priceIndex.n > k * metrics.priceIndex.d
indexBelow(k) == IsNum(metrics.priceIndex) /\ metrics.priceIndex.n < k * metrics.priceIndex.d
indexIs(k) == IsNum(metrics.priceIndex) /\ metrics.priceIndex.n = k * metrics.priceIndex.d
spreadAbove(k) ==
  IsNum(metrics.priceSpreadPercent) /\ metrics.priceSpreadPercent.n > k * metrics.priceSpreadPercent.d
spreadBelow(k) ==
  IsNum(metrics.priceSpreadPercent) /\ metrics.priceSpreadPercent.n < k * metrics.priceSpreadPercent.d
spreadIs(k) ==
  IsNum(metrics.priceSpreadPercent) /\ metrics.priceSpreadPercent.n = k * metrics.priceSpreadPercent.d

C2_LegacyZoneTable ==
  (engine = "legacy" /\ zoneComputed) =>
    /\ indexAbove(108) => zone.zone = "Overpriced"
    /\ (~indexBelow(95) /\ ~indexAbove(108)) => zone.zone = "Market-Aligned"
    /\ (zone.zone = "Underpriced") => indexBelow(95)

countBelow(prices, v) == Cardinality({i \in 1..Len(prices) : prices[i] < v})
countUpTo(prices, v) == Cardinality({i \in 1..Len(prices) : prices[i] <= v})
\* k-th smallest competitor price (k = 1..Len), by counting
kthSmallest(prices, k) ==
  CHOOSE v \in {prices[i] : i \in 1..Len(prices)} :
    countBelow(prices, v) < k /\ k <= countUpTo(prices, v)
\* twice the textbook median of the competitor prices
twiceMedian(prices) ==
  IF Len(prices) % 2 = 1
  THEN 2 * kthSmallest(prices, (Len(prices) + 1) \div 2)
  ELSE kthSmallest(prices, Len(prices) \div 2) + kthSmallest(prices, (Len(prices) \div 2) + 1)

\* C4: for a non-empty competitor list medianMarketPrice is the standard
\* median of the competitor prices only: the middle element of the ascending
\* order (odd count), the mean of the two middle elements (even count).
C4_StandardMedian ==
  (metricsComputed /\ Len(marketPrices) > 0) =>
    /\ IsNum(metrics.medianMarketPrice)
    /\ 2 * metrics.medianMarketPrice.n = twiceMedian(marketPrices) * metrics.medianMarketPrice.d

\* an unsorted list of even length whose two middle elements differ
C4_Witness ==
  /\ metricsComputed
  /\ Len(marketPrices) = 4
  /\ marketPrices # SortAsc(marketPrices)
  /\ kthSmallest(marketPrices, 2) # kthSmallest(marketPrices, 3)
  /\ 2 * metrics.medianMarketPrice.n = twiceMedian(marketPrices) * metrics.medianMarketPrice.d

\* the list with positions i and i+1 exchanged
swapAdjacent(prices, i) ==
  [j \in 1..Len(prices) |->
     IF j = i THEN prices[i + 1] ELSE IF j = i + 1 THEN prices[i] ELSE prices[j]]

\* the list reordered by the permutation p of its positions
permuted(prices, p) == [j \in 1..Len(prices) |-> prices[p[j]]]

\* C5: competitiveRank is 1 + the number of competitor prices strictly below
\* the merchant price, lies in 1..totalRetailers, and is the same for every
\* permutation of the competitor list (all permutations of lists up to
\* MaxPermuted entries; for longer lists every exchange of two neighbours,
\* which generates the permutations, each ordering being itself a state).
C5_RankByValue ==
  (pc = "zone" /\ Len(marketPrices) > 0) =>
    /\ metrics.competitiveRank = 1 + countBelow(marketPrices, merchantPrice)
    /\ metrics.competitiveRank >= 1
    /\ metrics.competitiveRank <= metrics.totalRetailers
    /\ \A i \in 1..(Len(marketPrices) - 1) :
         calculatePricingMetrics(swapAdjacent(marketPrices, i), merchantPrice).competitiveRank
           = metrics.competitiveRank
    /\ Len(marketPrices) <= MaxPermuted =>
         \A p \in Permutations(1..Len(marketPrices)) :
           calculatePricingMetrics(permuted(marketPrices, p), merchantPrice).competitiveRank
             = metrics.competitiveRank

\* the merchant price ties with competitors and some competitor is cheaper
C5_Witness ==
  /\ pc = "zone"
  /\ marketPrices # SortAsc(marketPrices)
  /\ Cardinality({i \in 1..Len(marketPrices) : marketPrices[i] = merchantPrice}) >= 2
  /\ countBelow(marketPrices, merchantPrice) >= 1
  /\ metrics.competitiveRank = 1 + countBelow(marketPrices, merchantPrice)

\* C6: confidence is High exactly when totalRetailers >= 6 and spread < 10,
\* otherwise Low exactly when totalRetailers <= 3 or spread > 20, otherwise
\* Medium; 6 retailers with a spread of exactly 10 or 20 give Medium, 3
\* retailers give Low.
C6_Confidence ==
  zoneComputed =>
    /\ (zone.confidence = "High") <=> (metrics.totalRetailers >= 6 /\ spreadBelow(10))
    /\ (zone.confidence = "Low") <=>
         (/\ ~(metrics.totalRetailers >= 6 /\ spreadBelow(10))
          /\ (metrics.totalRetailers <= 3 \/ spreadAbove(20)))
    /\ (zone.confidence = "Medium") <=>
         (/\ ~(metrics.totalRetailers >= 6 /\ spreadBelow(10))
          /\ ~(metrics.totalRetailers <= 3 \/ spreadAbove(20)))
    /\ (metrics.totalRetailers = 6 /\ (spreadIs(10) \/ spreadIs(20))) => zone.confidence = "Medium"
    /\ metrics.totalRetailers = 3 => zone.confidence = "Low"

C6_Witness ==
  /\ zoneComputed
  /\ metrics.totalRetailers = 6
  /\ spreadIs(10)
  /\ zone.confidence = "Medium"

\* C7: a price-discovery answer with zero results is rejected by the core with
\* an explicit error: nothing is computed from the empty list (no metrics, zone
\* or recommendations) and the call does not end by returning or by an
\* incidental TypeError.
C7_EmptyListRejected ==
  (engine = "core" /\ Len(marketPrices) = 0) =>
    /\ metrics = NoMetrics
    /\ zone = NoZone
    /\ rawRecommendations = <<>>
    /\ outcome \notin {"returned", "TypeError"}

\* C8: in the main pipeline analyzeMarketStrategy is never invoked with an
\* empty competitor list: after price discovery answered zero results the run
\* reaches neither the merchant-price prompt nor the strategy stage.
C8_StopsOnZeroResults ==
  /\ (stage \in {"prompt", "strategy"}) => Len(priceResult) > 0
  /\ (stage = "strategy" /\ pc # "idle") => Len(marketPrices) > 0

C10_EnhancementKeepsRules ==
  (engine = "core" /\ llm \in LLMAnswers /\ outcome = "returned") =>
    /\ Len(result.recommendations) = Len(rawRecommendations)
    /\ \A i \in 1..Len(rawRecommendations) :
         /\ result.recommendations[i].priority = rawRecommendations[i].priority
         /\ result.recommendations[i].category = rawRecommendations[i].category
         /\ result.recommendations[i].confidence = rawRecommendations[i].confidence

\* the state right after generateRuleBasedRecommendations returned
batchComputed == pc = "enhance"

indexAtLeast(k) == IsNum(metrics.priceIndex) /\ metrics.priceIndex.n >= k * metrics.priceIndex.d
indexAtMost(k) == IsNum(metrics.priceIndex) /\ metrics.priceIndex.n <= k * metrics.priceIndex.d

UniversalRuleNames ==
  {"UNIVERSAL_DEALBREAKERS", "UNIVERSAL_STRENGTHS", "UNIVERSAL_SERVICE", "PSYCHOLOGICAL_PRICING"}
isUniversalEntry(rec) == rec.rule \in UniversalRuleNames
isZoneEntry(rec) == rec.rule \notin UniversalRuleNames
\* the entries of the raw batch pushed by the zone branch / by the universal rules
zoneEntries == SelectSeq(rawRecommendations, isZoneEntry)
universalEntries == SelectSeq(rawRecommendations, isUniversalEntry)

\* C11 as stated: for every zone, tier and feedback (and a competitor list
\* that is not empty) the raw batch holds at
\* least 2 zone-specific entries plus 3 to 4 universal entries, and every
\* entry has a non-empty reasoning list.
C11_BatchSize ==
  (engine = "core" /\ batchComputed /\ Len(marketPrices) > 0) =>
    /\ Len(zoneEntries) >= 2
    /\ Len(universalEntries) \in 3..4
    /\ \A i \in 1..Len(rawRecommendations) : rawRecommendations[i].reasoning >= 1

\* C11 amended: the raw batch is the zone-specific entries followed by the
\* universal ones; there is at least 1 zone-specific entry, and at least 2
\* exactly when priceIndex >= 50; there are 1 to 4 universal entries; every
\* entry has a non-empty reasoning list.
C11_BatchSizeAmended ==
  batchComputed =>
    /\ rawRecommendations = zoneEntries \o universalEntries
    /\ Len(zoneEntries) \in 1..3
    /\ (Len(zoneEntries) >= 2) <=> indexAtLeast(50)
    /\ Len(universalEntries) \in 1..4
    /\ \A i \in 1..Len(rawRecommendations) : rawRecommendations[i].reasoning >= 1

\* severe underpricing, no feedback, a price that is not round: two entries in all
C11_Witness ==
  /\ engine = "core" /\ batchComputed
  /\ indexBelow(50)
  /\ Len(zoneEntries) = 1
  /\ Len(universalEntries) = 1
  /\ Len(rawRecommendations) = 2

\* C12: in the Overpriced branch the batch starts with one primary Pricing
\* recommendation (confidence High when priceIndex > 130, otherwise the zone
\* confidence), then the Value-Add bundle recommendation with confidence
\* Medium; the Urgency flash-sale recommendation (confidence High) is
\* present iff priceIndex <= 130.
C12_OverpricedBranch ==
  (engine = "core" /\ batchComputed /\ zone.zone = "Overpriced") =>
    /\ Len(rawRecommendations) >= 2
    /\ rawRecommendations[1].category = "Pricing"
    /\ rawRecommendations[1].priority = 1
    /\ rawRecommendations[1].action = "Reduce price to"
    /\ rawRecommendations[1].confidence = IF indexAbove(130) THEN "High" ELSE zone.confidence
    /\ Cardinality({i \in 1..Len(zoneEntries) : zoneEntries[i].category = "Pricing"}) = 1
    /\ rawRecommendations[2].category = "Value-Add"
    /\ rawRecommendations[2].action = "Add value bundle instead of price cut"
    /\ rawRecommendations[2].confidence = "Medium"
    /\ (\E i \in 1..Len(rawRecommendations) : rawRecommendations[i].category = "Urgency")
         <=> indexAtMost(130)
    /\ \A i \in 1..Len(rawRecommendations) :
         rawRecommendations[i].category = "Urgency" =>
           /\ i = 3
           /\ rawRecommendations[i].confidence = "High"
           /\ rawRecommendations[i].action = "Create urgency with flash sale or limited stock"

\* a price index of exactly 130: the flash sale is still recommended
C12_Witness ==
  /\ engine = "core" /\ batchComputed /\ zone.zone = "Overpriced"
  /\ indexIs(130)
  /\ rawRecommendations[3].category = "Urgency"
  /\ rawRecommendations[1].confidence # "High"

\* C13: in the Underpriced branch the batch starts with one primary Pricing
\* recommendation (confidence High when priceIndex < 50, otherwise the zone
\* confidence); the Marketing "maintain low price and focus on volume"
\* recommendation (confidence Medium) is present iff priceIndex >= 50.
C13_UnderpricedBranch ==
  (engine = "core" /\ batchComputed /\ zone.zone = "Underpriced") =>
    /\ Len(rawRecommendations) >= 1
    /\ rawRecommendations[1].category = "Pricing"
    /\ rawRecommendations[1].priority = 1
    /\ rawRecommendations[1].action = "Increase price to"
    /\ rawRecommendations[1].confidence = IF indexBelow(50) THEN "High" ELSE zone.confidence
    /\ Cardinality({i \in 1..Len(zoneEntries) : zoneEntries[i].category = "Pricing"}) = 1
    /\ (\E i \in 1..Len(rawRecommendations) :
          rawRecommendations[i].action = "Maintain low price and focus on volume")
         <=> indexAtLeast(50)
    /\ \A i \in 1..Len(rawRecommendations) :
         rawRecommendations[i].action = "Maintain low price and focus on volume" =>
           /\ i = 2
           /\ rawRecommendations[i].category = "Marketing"
           /\ rawRecommendations[i].confidence = "Medium"

\* a price index of exactly 50: the volume recommendation is present
C13_Witness ==
  /\ engine = "core" /\ batchComputed /\ zone.zone = "Underpriced"
  /\ indexIs(50)
  /\ rawRecommendations[2].action = "Maintain low price and focus on volume"
  /\ rawRecommendations[1].confidence # "High"

\* C14: in the Market-Aligned zone the zone-specific part of the batch is
\* exactly two recommendations and changes no price: "Hold current price -
\* focus on conversion optimization" with the zone confidence, then "Improve
\* product listing quality and visibility" with confidence High.
C14_AlignedBranch ==
  (engine = "core" /\ batchComputed /\ zone.zone = "Market-Aligned") =>
    /\ Len(zoneEntries) = 2
    /\ SubSeq(rawRecommendations, 1, 2) = zoneEntries
    /\ zoneEntries[1].action = "Hold current price - focus on conversion optimization"
    /\ zoneEntries[1].confidence = zone.confidence
    /\ zoneEntries[2].action = "Improve product listing quality and visibility"
    /\ zoneEntries[2].confidence = "High"
    /\ \A i \in 1..2 :
         /\ zoneEntries[i].category # "Pricing"
         /\ zoneEntries[i].targetLow = Undefined
         /\ zoneEntries[i].targetHigh = Undefined
         /\ zoneEntries[i].psychologicalPriceSuggestion = NoSuggestion

\* an aligned price in a market whose confidence is not High
C14_Witness ==
  /\ engine = "core" /\ batchComputed /\ zone.zone = "Market-Aligned"
  /\ zone.confidence = "Low"
  /\ zoneEntries[1].confidence = "Low"
  /\ zoneEntries[2].confidence = "High"
  /\ Len(rawRecommendations) > 2

\* the universal entries the claim expects, in its order
expectedUniversal ==
  (IF customerFeedback.dealBreakers > 0 THEN <<"Quality">> ELSE <<>>)
  \o (IF customerFeedback.strengths > 0 THEN <<"Marketing">> ELSE <<>>)
  \o <<"Value-Add">>
  \o (IF merchantPrice % 100 = 0 THEN <<"Pricing">> ELSE <<>>)

\* C15: in every zone the batch ends, after the zone-specific entries, with
\* exactly these in this order: the Quality deal-breaker recommendation iff
\* dealBreakers is non-empty, the Marketing strengths recommendation iff
\* strengths is non-empty, the Value-Add service recommendation always, the
\* Pricing psychological-pricing recommendation iff the merchant price is a
\* multiple of 100.
C15_UniversalRules ==
  (engine = "core" /\ batchComputed) =>
    /\ rawRecommendations = zoneEntries \o universalEntries
    /\ Len(universalEntries) = Len(expectedUniversal)
    /\ \A i \in 1..Len(universalEntries) : universalEntries[i].category = expectedUniversal[i]
    /\ \A i \in 1..Len(universalEntries) :
         universalEntries[i].rule =
           CASE universalEntries[i].category = "Quality" -> "UNIVERSAL_DEALBREAKERS"
             [] universalEntries[i].category = "Marketing" -> "UNIVERSAL_STRENGTHS"
             [] universalEntries[i].category = "Value-Add" -> "UNIVERSAL_SERVICE"
             [] OTHER -> "PSYCHOLOGICAL_PRICING"
    /\ \A i \in 1..(Len(universalEntries) - 1) :
         universalEntries[i].priority < universalEntries[i + 1].priority

\* all four universal entries, for a price that is a multiple of 100 but not of 1000
C15_Witness ==
  /\ engine = "core" /\ batchComputed
  /\ merchantPrice % 100 = 0 /\ merchantPrice % 1000 # 0
  /\ Len(universalEntries) = 4
  /\ universalEntries[4].rule = "PSYCHOLOGICAL_PRICING"

\* C16: in both severe tiers (Overpriced with priceIndex > 130, Underpriced
\* with priceIndex < 50) the target range of the primary recommendation
\* brackets the market median: low <= medianMarketPrice <= high, for every
\* competitor list, of odd or even length.
C16_SevereRangeBracketsMedian ==
  (/\ engine = "core" /\ batchComputed /\ Len(marketPrices) > 0
   /\ (indexAbove(130) \/ indexBelow(50))) =>
    /\ rawRecommendations[1].rule \in {"OVERPRICED_SEVERE", "UNDERPRICED_SEVERE"}
    /\ Le(rawRecommendations[1].targetLow, metrics.medianMarketPrice)
    /\ Le(metrics.medianMarketPrice, rawRecommendations[1].targetHigh)

\* the psychological-pricing entry of the raw batch, when there is one
hasPsychologicalEntry ==
  \E i \in 1..Len(rawRecommendations) : rawRecommendations[i].rule = "PSYCHOLOGICAL_PRICING"
psychologicalEntry ==
  rawRecommendations[CHOOSE i \in 1..Len(rawRecommendations) :
                       rawRecommendations[i].rule = "PSYCHOLOGICAL_PRICING"]

\* C17: for every round merchant price (a multiple of 100) the
\* psychological-pricing recommendation suggests a price below the current
\* one, a price ending in 000 becoming the X999 just below it (5000 -> 4999),
\* so that savingsPerception = currentPrice - suggestedPrice is positive.
C17_PsychologicalPriceLower ==
  (engine = "core" /\ batchComputed /\ Len(marketPrices) > 0 /\ merchantPrice % 100 = 0) =>
    /\ hasPsychologicalEntry
    /\ psychologicalEntry.psychologicalPriceSuggestion.currentPrice = Int2Num(merchantPrice)
    /\ Lt(psychologicalEntry.psychologicalPriceSuggestion.suggestedPrice, Int2Num(merchantPrice))
    /\ Gt(psychologicalEntry.psychologicalPriceSuggestion.savingsPerception, Int2Num(0))
    /\ merchantPrice % 1000 = 0 =>
         Sub(Int2Num(merchantPrice), psychologicalEntry.psychologicalPriceSuggestion.suggestedPrice)
           = Int2Num(1)

\* the six calendar ranges, day by day
festivalOn(month, day) ==
  IF month = 1 /\ day \in 20..31 THEN "Republic Day Sale"
  ELSE IF month = 3 /\ day \in 15..25 THEN "Holi Sale"
  ELSE IF month = 4 \/ month = 5 THEN "Summer Sale"
  ELSE IF month = 8 /\ day \in 10..20 THEN "Independence Day Sale"
  ELSE IF month = 10 \/ (month = 11 /\ day \in 1..15) THEN "Diwali/Festive Season"
  ELSE IF month = 12 /\ day \in 15..31 THEN "Year-End Sale"
  ELSE "none"

festivalChecked == festivalContext # NoFestival

\* C18: checkFestivalContext reports an active festival, with the name of the
\* range, iff the date lies in one of the six inclusive ranges (Jan 20-31,
\* Mar 15-25, Apr 1-May 31, Aug 10-20, Oct 1-Nov 15, Dec 15-31), and
\* otherwise isActiveFestival = false with no name and no strategy; Oct 15 is
\* Diwali/Festive Season, Jan 20 Republic Day Sale, Jun 1 and Feb 1 none.
C18_FestivalRanges ==
  festivalChecked =>
    /\ festivalContext.isActiveFestival <=> (festivalOn(today[1], today[2]) # "none")
    /\ festivalContext.isActiveFestival =>
         /\ festivalContext.festivalName = festivalOn(today[1], today[2])
         /\ festivalContext.festivalStrategy # "undefined"
    /\ ~festivalContext.isActiveFestival =>
         /\ festivalContext.festivalName = "undefined"
         /\ festivalContext.festivalStrategy = "undefined"
    /\ today = <<10, 15>> => festivalContext.festivalName = "Diwali/Festive Season"
    /\ today = <<1, 20>> => festivalContext.festivalName = "Republic Day Sale"
    /\ today \in {<<6, 1>>, <<2, 1>>} => ~festivalContext.isActiveFestival

\* the first day of a range
C18_Witness ==
  /\ festivalChecked
  /\ today = <<1, 20>>
  /\ festivalContext.isActiveFestival
  /\ festivalContext.festivalName = "Republic Day Sale"

\* C19: for every result analyzeMarketStrategy returned, the report shows at
\* least 2 and at most 5 recommendations, each of confidence High or Medium,
\* in ascending priority order.
C19_ReportShowsTwoToFive ==
  (stage = "finished") =>
    /\ Len(report.recsToShow) >= 2
    /\ Len(report.recsToShow) <= 5
    /\ \A i \in 1..Len(report.recsToShow) : report.recsToShow[i].confidence \in {"High", "Medium"}
    /\ \A i \in 1..(Len(report.recsToShow) - 1) :
         report.recsToShow[i].priority <= report.recsToShow[i + 1].priority

\* the stages main() runs inside withRetry, and the order of all stages
RetryStages == {"search", "feedback", "strategy"}
stageOrder(s) ==
  CASE s = "search" -> 1 [] s = "feedback" -> 2 [] s = "prompt" -> 3
    [] s = "strategy" -> 4 [] s = "report" -> 5 [] s = "finished" -> 6
    [] s = "exited" -> 7 [] OTHER -> 0

\* a step in which withRetry invokes its operation
invocationStep ==
  \/ stage \in {"search", "feedback"} /\ ~waiting
  \/ stage = "strategy" /\ pc = "idle" /\ pc' = "metrics"

\* C20: withRetry invokes the operation at most maxRetries (2) times; when an
\* attempt succeeds the stage is left at once and never attempted again; a
\* delay happens only after a failed attempt that is not the last and is
\* followed by the next attempt, never after the last attempt.
C20_WithRetry ==
  [][/\ invocationStep => attempt \in 1..maxRetries
     /\ (~waiting /\ waiting') =>
          /\ stage \in RetryStages /\ stage' = stage
          /\ attempt' = attempt /\ attempt < maxRetries
     /\ waiting =>
          /\ ~waiting' /\ stage' = stage
          /\ attempt' = attempt + 1 /\ attempt' <= maxRetries
          /\ pc' = pc /\ priceResult' = priceResult /\ feedbackResult' = feedbackResult
     /\ stage' # stage => stageOrder(stage') > stageOrder(stage)
     /\ (stage \in RetryStages /\ stage' \notin {stage, "exited"}) => ~waiting'
     /\ (stage \in RetryStages /\ stage' = "exited") =>
          /\ attempt = maxRetries /\ ~waiting' /\ exitCode' = 1
    ]_vars

\* both attempts of a stage were used and no delay follows the last one
C20_Witness ==
  /\ stage = "exited"
  /\ attempt = maxRetries
  /\ ~waiting
  /\ exitCode = 1
  /\ priceResult # <<>>

\* the feedback with every absent array read as an empty one
asEmpty(fb) == [f \in DOMAIN fb |-> IF fb[f] = Missing THEN 0 ELSE fb[f]]

\* the call of generateRuleBasedRecommendations has ended, by return or by throw
rulesSettled == pc \in {"enhance", "done"}

\* C21: with well-formed metrics and zone, generateRuleBasedRecommendations
\* never throws when the feedback lacks one of dealBreakers, missingFeatures,
\* strengths, commonComplaints: it returns the batch it returns when the
\* missing array is empty.
C21_MissingArraysAsEmpty ==
  (rulesSettled /\ Len(marketPrices) > 0) =>
    /\ outcome # "TypeError"
    /\ rawRecommendations =
         IF engine = "core"
         THEN generateRuleBasedRecommendations(metrics, zone, asEmpty(customerFeedback))
         ELSE generateRuleBasedRecommendationsLegacy(metrics, zone, asEmpty(customerFeedback))

\* what the filter is said to keep: at most 200 characters and no character,
\* of any kind, repeated 21 or more times in a row
keptAsStated(r) == r.url.length <= 200 /\ r.url.run < 21 /\ r.url.lineRun < 21

\* C22: the services searchProductPrices either throws or returns a non-empty
\* results list holding, in their original order, exactly the parsed results
\* whose url has at most 200 characters and no character repeated 21 or more
\* times in a row; when every result is filtered out it throws.
C22_FilteredResults ==
  (searchResult.status # "none") =>
    /\ searchResult.status \in {"threw", "returned"}
    /\ (searchResult.status = "returned") =>
         /\ content.kind = "ok"
         /\ searchResult.results # <<>>
         /\ searchResult.results = SelectSeq(content.results, keptAsStated)
    /\ (content.kind = "ok" /\ SelectSeq(content.results, keptAsStated) = <<>>) =>
         searchResult.status = "threw"

\* C23: getMerchantPriceFromCLI resolves only with a number that is not NaN
\* and is greater than 0; every other answer leads to another prompt without
\* resolving; the readline interface is closed exactly once, at the first
\* valid answer.
C23_PromptUntilValid ==
  [][/\ (stage = "prompt" /\ prompts' # prompts) =>
          IF IsNum(lastAnswer') /\ Gt(lastAnswer', Int2Num(0))
          THEN /\ stage' = "strategy"
               /\ Int2Num(merchantPrice') = lastAnswer'
               /\ rlClosed = 0 /\ rlClosed' = 1
          ELSE /\ stage' = "prompt"
               /\ merchantPrice' = merchantPrice
               /\ rlClosed' = 0
     /\ (stage = "prompt" /\ stage' # "prompt") => prompts' # prompts
     /\ rlClosed' # rlClosed => stage = "prompt" /\ stage' = "strategy"
     /\ stage' \in {"strategy", "report", "finished"} => rlClosed' = 1 /\ merchantPrice' > 0
    ]_vars

\* an invalid answer was followed by a valid one
C23_Witness ==
  /\ stage = "strategy"
  /\ prompts = 2
  /\ rlClosed = 1
  /\ Int2Num(merchantPrice) = lastAnswer

PrimaryRules ==
  {"OVERPRICED_SEVERE", "OVERPRICED_MODERATE", "OVERPRICED_MINOR",
   "ALIGNED_HOLD_OPTIMIZE",
   "UNDERPRICED_SEVERE", "UNDERPRICED_MODERATE", "UNDERPRICED_MINOR"}

\* C24: the raw batch is ordered by priority: the priorities never decrease
\* along the list, and the first entry is the primary recommendation of the
\* zone, with priority 1.
C24_OrderedByPriority ==
  (batchComputed /\ Len(marketPrices) > 0) =>
    /\ Len(rawRecommendations) >= 1
    /\ rawRecommendations[1].priority = 1
    /\ rawRecommendations[1].rule \in PrimaryRules
    /\ \A i \in 1..(Len(rawRecommendations) - 1) :
         rawRecommendations[i].priority <= rawRecommendations[i + 1].priority

\* an overpriced batch in which two neighbours share priority 3
C24_Witness ==
  /\ batchComputed /\ zone.zone = "Overpriced"
  /\ Len(rawRecommendations) >= 5
  /\ rawRecommendations[3].priority = 3
  /\ rawRecommendations[4].priority = 3

\* C25: for every non-empty competitor list, minMarketPrice <=
\* medianMarketPrice <= maxMarketPrice and totalRetailers is the number of
\* competitor prices plus one, so at least 2.
C25_MetricsBounds ==
  metricsComputed =>
    /\ Le(metrics.minMarketPrice, metrics.medianMarketPrice)
    /\ Le(metrics.medianMarketPrice, metrics.maxMarketPrice)
    /\ metrics.totalRetailers = Len(marketPrices) + 1
    /\ metrics.totalRetailers >= 2

\* one competitor: min, median and max coincide and two retailers are counted
C25_Witness ==
  /\ metricsComputed
  /\ Len(marketPrices) = 1
  /\ metrics.totalRetailers = 2
  /\ metrics.minMarketPrice = metrics.maxMarketPrice

\* applyPsychologicalPricing has been applied to the raw price and to its result
appliedTwice == Len(charmPrices) = 2

\* raw prices below 9007199254740000 (2^53 - 992): the charm price of every
\* one of them is at most 2^53
belowExactLimit(x) == x.kind = "num" \/ x.n < 2000

\* C26 as stated: for every non-negative price x,
\* applyPsychologicalPricing(applyPsychologicalPricing(x)) =
\* applyPsychologicalPricing(x).
C26_Idempotent ==
  appliedTwice => charmPrices[2] = charmPrices[1]

\* C26 amended: the rounder is idempotent for every non-negative price below
\* 9007199254740000.
C26_IdempotentBelowLimit ==
  (appliedTwice /\ belowExactLimit(rawPrice)) => charmPrices[2] = charmPrices[1]

\* the largest price below the limit: both applications give WideOrigin + 1999
C26_Witness ==
  /\ appliedTwice
  /\ rawPrice = Wide(1999)
  /\ charmPrices = <<Wide(1999), Wide(1999)>>

\* C27: the stages run in the order search, feedback, prompt, strategy,
\* report; a stage starts only after the one before it succeeded; when every
\* attempt of a stage has failed, withRetry throws the error of the last
\* attempt, the process exits with status 1, no later stage starts and no
\* report is printed.
C27_StagesInOrder ==
  [][/\ stage # "exited"
     /\ (stage' # stage /\ stage' # "exited") =>
          stageOrder(stage') = stageOrder(stage) + 1
     /\ (stage \in {"search", "feedback"} /\ stage' \notin {stage, "exited"}) =>
          lastError' = "null"
     /\ (stage = "strategy" /\ stage' \notin {stage, "exited"}) =>
          outcome = "returned"
     /\ (stage \in RetryStages /\ stage' = "exited") =>
          /\ attempt = maxRetries
          /\ exitCode' = 1
          /\ lastError' # "null"
          /\ stage = "strategy" => lastError' = outcome
          /\ report' = NoReport
          /\ stage \in {"search", "feedback"} => prompts' = 0 /\ outcome' = "pending"
          /\ stage = "search" => feedbackResult' = NoFeedback
    ]_vars

\* the strategy stage failed twice: the TypeError of the last attempt is thrown
C27_Witness ==
  /\ stage = "exited"
  /\ lastError = "TypeError"
  /\ exitCode = 1
  /\ report = NoReport
  /\ prompts > 0

\* C28: in the Overpriced zone both bounds of the primary "Reduce price to"
\* range are strictly below the merchant's current price, in all three tiers.
C28_TargetsBelowMerchantPrice ==
  (engine = "core" /\ batchComputed /\ zone.zone = "Overpriced" /\ Len(marketPrices) > 0) =>
    /\ Lt(rawRecommendations[1].targetLow, Int2Num(merchantPrice))
    /\ Lt(rawRecommendations[1].targetHigh, Int2Num(merchantPrice))

\* the entries of the raw batch that carry a price range
hasRange(rec) == rec.targetLow # Undefined \/ rec.targetHigh # Undefined

\* C29: every price target embedded in a Pricing recommendation (both bounds
\* of each range, and the psychological-price suggestion) is strictly
\* positive, and each range has low <= high.
C29_PositiveTargets ==
  (engine = "core" /\ batchComputed /\ Len(marketPrices) > 0) =>
    \A i \in 1..Len(rawRecommendations) :
      /\ hasRange(rawRecommendations[i]) =>
           /\ Gt(rawRecommendations[i].targetLow, Int2Num(0))
           /\ Gt(rawRecommendations[i].targetHigh, Int2Num(0))
           /\ Le(rawRecommendations[i].targetLow, rawRecommendations[i].targetHigh)
      /\ rawRecommendations[i].psychologicalPriceSuggestion # NoSuggestion =>
           Gt(rawRecommendations[i].psychologicalPriceSuggestion.suggestedPrice, Int2Num(0))

\* what the SUMMARY line quotes of a recommendation: its action, price range
\* included, in the Overpriced and Underpriced zones, its category otherwise
quotedInSummary(rec, z) ==
  IF z \in {"Overpriced", "Underpriced"}
  THEN <<rec.action, rec.targetLow, rec.targetHigh>>
  ELSE <<rec.category>>

\* C30: the recommendation quoted in the SUMMARY line is the one displayed
\* as Action 1, for every analysis result, the raw fallback batch included;
\* stated for the results whose batch is the raw batch or a rewording of it.
C30_SummaryIsActionOne ==
  (stage = "finished" /\ llm \in LLMFailures \cup {"reworded"}) =>
    /\ Len(report.recsToShow) >= 1
    /\ quotedInSummary(report.summary.recommendation, report.summary.zone)
         = quotedInSummary(report.recsToShow[1], report.summary.zone)

====
